---- MODULE Spec2Model ----
(***************************************************************************)
(* Model of the symbol acquisition pipeline of short-term-contrarian:      *)
(*   src/data_acquisition/exchange.py     Exchange.get_symbols             *)
(*   src/data_acquisition/get_symbols.py  get_all_symbols,                 *)
(*                                        get_exchange_symbols, main       *)
(*   config/exchanges.py                  EXCHANGES                        *)
(*   scripts/symbols.py                   Symbols.get_symbols              *)
(*   src/utils/parameters.py              ParameterEnvironment             *)
(* A Python str is a sequence of one-character strings; a DataFrame is a   *)
(* record of its column names and its rows; a file under RAW_DATA_DIR is   *)
(* the header and the lines of comma separated fields that to_csv wrote.   *)
(***************************************************************************)
EXTENDS Integers, Sequences, FiniteSets, TLC

(***************************************************************************)
(* Characters and cells                                                    *)
(***************************************************************************)
Upper == {"A", "B", "C", "D", "E", "F", "G", "H", "I", "J", "K", "L", "M",
          "N", "O", "P", "Q", "R", "S", "T", "U", "V", "W", "X", "Y", "Z"}
Lower == {"a", "b", "c", "d", "e", "f", "g", "h", "i", "j", "k", "l", "m",
          "n", "o", "p", "q", "r", "s", "t", "u", "v", "w", "x", "y", "z"}
Digit == {"0", "1", "2", "3", "4", "5", "6", "7", "8", "9"}
\* \w of a Python str pattern
Word == Upper \cup Lower \cup Digit \cup {"_"}
\* \s of a Python str pattern; "nbsp" stands for the one character U+00A0
Space == {" ", "nbsp"}

\* a DataFrame cell: a str, a float (NaN when v is empty) or an int
Str(s) == [t |-> "str", v |-> s]
NaN == [t |-> "float", v |-> <<>>]
IntCell(d) == [t |-> "int", v |-> d]
FloatCell(d) == [t |-> "float", v |-> d]

INVALID == <<"i", "n", "v", "a", "l", "i", "d", "_", "t", "i", "c", "k", "e", "r">>

(***************************************************************************)
(* re.sub for the patterns of config/exchanges.py                          *)
(***************************************************************************)
RECURSIVE RunEnd(_, _, _)
\* first position at or after i whose character is outside S (greedy S*)
RunEnd(s, i, S) ==
    IF i <= Len(s) /\ s[i] \in S THEN RunEnd(s, i + 1, S) ELSE i

StartsWithAt(s, i, lit) ==
    /\ i + Len(lit) - 1 <= Len(s)
    /\ SubSeq(s, i, i + Len(lit) - 1) = lit

\* r'^([A-Z]{lo,hi})$' with the replacement r'\1' + suffix, on a str without
\* a line break
SubUpper(lo, hi, suffix, x) ==
    IF Len(x) >= lo /\ Len(x) <= hi /\ \A i \in 1..Len(x) : x[i] \in Upper
    THEN x \o suffix
    ELSE x

\* r'^Athex:\s*(\w*)\s*(\[.+)?' with the replacement r'\1.AT'
SubAthex(x) ==
    LET lit == <<"A", "t", "h", "e", "x", ":">>
        a == RunEnd(x, Len(lit) + 1, Space)
        b == RunEnd(x, a, Word)
        c == RunEnd(x, b, Space)
        d == IF c + 1 <= Len(x) /\ x[c] = "[" THEN Len(x) + 1 ELSE c
    IN  IF StartsWithAt(x, 1, lit)
        THEN SubSeq(x, a, b - 1) \o <<".", "A", "T">> \o SubSeq(x, d, Len(x))
        ELSE x

\* SubCsi giving every match the suffix of Shenzhen
SubCsiOneSuffix(x) ==
    LET sse == <<"S", "S", "E", ":">>
        szse == <<"S", "Z", "S", "E", ":">>
        a2 == RunEnd(x, Len(sse) + 1, Space)
        b2 == RunEnd(x, a2, Digit)
        a3 == RunEnd(x, Len(szse) + 1, Space)
        b3 == RunEnd(x, a3, Digit)
    IN  IF StartsWithAt(x, 1, sse) /\ b2 > a2 /\ b2 = Len(x) + 1
        THEN SubSeq(x, a2, b2 - 1) \o <<".", "S", "Z">>
        ELSE IF StartsWithAt(x, 1, szse) /\ b3 > a3 /\ b3 = Len(x) + 1
             THEN SubSeq(x, a3, b3 - 1) \o <<".", "S", "Z">>
             ELSE x

\* r'^(SSE:\s*(\d+)|SZSE:\s*(\d+))$' with the lambda of CSI_100 / CSI_300
SubCsi(x) ==
    LET sse == <<"S", "S", "E", ":">>
        szse == <<"S", "Z", "S", "E", ":">>
        a2 == RunEnd(x, Len(sse) + 1, Space)
        b2 == RunEnd(x, a2, Digit)
        a3 == RunEnd(x, Len(szse) + 1, Space)
        b3 == RunEnd(x, a3, Digit)
    IN  IF StartsWithAt(x, 1, sse) /\ b2 > a2 /\ b2 = Len(x) + 1
        THEN SubSeq(x, a2, b2 - 1) \o <<".", "S", "S">>
        ELSE IF StartsWithAt(x, 1, szse) /\ b3 > a3 /\ b3 = Len(x) + 1
             THEN SubSeq(x, a3, b3 - 1) \o <<".", "S", "Z">>
             ELSE x

\* re.sub(pattern, repl, x) for a pattern_and_replacement of the configuration
ReSub(rule, x) ==
    CASE rule.kind = "upper" -> SubUpper(rule.lo, rule.hi, rule.suffix, x)
      [] rule.kind = "athex" -> SubAthex(x)
      [] rule.kind = "csi" -> SubCsi(x)

\* end of a match of (%5B\d+%5D|\[\d+\]) that starts at i, 0 when there is none
FootnoteEnd(s, i) ==
    LET je == RunEnd(s, i + 3, Digit)
        jb == RunEnd(s, i + 1, Digit)
    IN  IF StartsWithAt(s, i, <<"%", "5", "B">>) /\ je > i + 3
           /\ StartsWithAt(s, je, <<"%", "5", "D">>)
        THEN je + 3
        ELSE IF StartsWithAt(s, i, <<"[">>) /\ jb > i + 1
                /\ StartsWithAt(s, jb, <<"]">>)
             THEN jb + 1
             ELSE 0

RECURSIVE StripFrom(_, _)
StripFrom(s, i) ==
    IF i > Len(s) THEN <<>>
    ELSE IF FootnoteEnd(s, i) # 0 THEN StripFrom(s, FootnoteEnd(s, i))
         ELSE <<s[i]>> \o StripFrom(s, i + 1)

\* re.sub(r'(%5B\d+%5D|\[\d+\])', '', x): every marker, wherever it stands
StripFootnotes(x) == StripFrom(x, 1)

(***************************************************************************)
(* DataFrame.to_csv(filepath, index=False) and pd.read_csv(filepath)       *)
(***************************************************************************)
\* a DataFrame: its column names in order and its rows of cells
Column(table, key) ==
    CHOOSE j \in 1..Len(table.columns) : table.columns[j] = key

HasColumn(table, key) ==
    \E j \in 1..Len(table.columns) : table.columns[j] = key

\* table[key].values / table[key].tolist()
ColumnValues(table, key) ==
    [i \in 1..Len(table.rows) |-> table.rows[i][Column(table, key)]]

\* the text to_csv writes for one cell: NaN is the empty field
CellText(cell) ==
    IF cell.t = "float" /\ cell.v # <<>> THEN cell.v \o <<".", "0">> ELSE cell.v

Absent == [exists |-> FALSE, header |-> <<>>, lines |-> <<>>]

ToCsv(table) ==
    [exists |-> TRUE,
     header |-> table.columns,
     lines |-> [i \in 1..Len(table.rows) |->
                  [j \in 1..Len(table.rows[i]) |-> CellText(table.rows[i][j])]]]

\* fields read_csv takes for missing values (its default na_values)
NAValues == {<<>>, <<"N", "A">>, <<"N", "a", "N">>, <<"n", "a", "n">>,
             <<"N", "U", "L", "L">>, <<"n", "u", "l", "l">>,
             <<"N", "/", "A">>, <<"n", "/", "a">>, <<"N", "o", "n", "e">>}

IsNumeric(f) == f # <<>> /\ \A i \in 1..Len(f) : f[i] \in Digit

RECURSIVE Canonical(_)
\* the digits of int("000123")
Canonical(d) ==
    IF Len(d) > 1 /\ d[1] = "0" THEN Canonical(Tail(d)) ELSE d

\* a line shorter than the header is padded with missing fields
FieldAt(file, i, j) ==
    IF j <= Len(file.lines[i]) THEN file.lines[i][j] ELSE <<>>

\* dtype inference of read_csv for column j
ColumnIsNumeric(file, j) ==
    \A i \in 1..Len(file.lines) :
        FieldAt(file, i, j) \in NAValues \/ IsNumeric(FieldAt(file, i, j))

ColumnHasNA(file, j) ==
    \E i \in 1..Len(file.lines) : FieldAt(file, i, j) \in NAValues

ParseField(file, i, j) ==
    LET f == FieldAt(file, i, j)
    IN  IF f \in NAValues THEN NaN
        ELSE IF ColumnIsNumeric(file, j)
             THEN IF ColumnHasNA(file, j) THEN FloatCell(Canonical(f))
                  ELSE IntCell(Canonical(f))
             ELSE Str(f)

\* read_csv raises EmptyDataError on a file without a header line and
\* ParserError on a line with more fields than the header (no file here has
\* one field more on every line, which read_csv takes for an index column)
CsvRaises(file) ==
    \/ file.header = <<>>
    \/ \E i \in 1..Len(file.lines) : Len(file.lines[i]) > Len(file.header)

ReadCsv(file) ==
    [columns |-> file.header,
     rows |-> [i \in 1..Len(file.lines) |->
                 [j \in 1..Len(file.header) |-> ParseField(file, i, j)]]]

(***************************************************************************)
(* config/exchanges.py: three of the eight configured exchanges, in the    *)
(* order of the EXCHANGES dictionary                                       *)
(***************************************************************************)
DJIA ==
    [name |-> "DOW_JONES",
     url |-> "https://en.wikipedia.org/wiki/Dow_Jones_Industrial_Average",
     table_number |-> 2,
     pattern_and_replacement |->
         [kind |-> "upper", lo |-> 1, hi |-> 5, suffix |-> <<>>],
     column_key |-> "Symbol",
     filename |-> "symbols_djia.csv"]

FTSE_100 ==
    [name |-> "FTSE_100",
     url |-> "https://en.wikipedia.org/wiki/FTSE_100_Index",
     table_number |-> 4,
     pattern_and_replacement |->
         [kind |-> "upper", lo |-> 2, hi |-> 4, suffix |-> <<".", "L">>],
     column_key |-> "Ticker",
     filename |-> "symbols_ftse_100.csv"]

ATHEX ==
    [name |-> "ATHEX",
     url |-> "https://en.wikipedia.org/wiki/FTSE/Athex_Large_Cap",
     table_number |-> 2,
     pattern_and_replacement |-> [kind |-> "athex"],
     column_key |-> "Traded as",
     filename |-> "symbols_athex.csv"]

ExchangeKeys == <<"DJIA", "FTSE_100", "ATHEX">>

EXCHANGES ==
    [k \in {"DJIA", "FTSE_100", "ATHEX"} |->
        CASE k = "DJIA" -> DJIA
          [] k = "FTSE_100" -> FTSE_100
          [] k = "ATHEX" -> ATHEX]

(***************************************************************************)
(* The pages behind the configured URLs as they are when all is well: the  *)
(* constituents table stands at the configured table_number, after tables  *)
(* that do not have the ticker column                                      *)
(***************************************************************************)
Filler == [columns |-> <<"Note">>, rows |-> <<>>]

Constituents(k) ==
    CASE k = "DJIA" ->
           [columns |-> <<"Symbol", "Company">>,
            rows |-> << <<Str(<<"M", "M", "M">>), Str(<<"3", "M">>)>>,
                        <<Str(<<"A", "X", "P">>), Str(<<"A", "m", "e", "x">>)>> >>]
      [] k = "FTSE_100" ->
           [columns |-> <<"Ticker", "Company">>,
            rows |-> << <<Str(<<"B", "A", "R", "C">>), Str(<<"B", "a", "r", "c">>)>>,
                        <<Str(<<"B", "P">>), Str(<<"B", "P">>)>> >>]
      [] k = "ATHEX" ->
           [columns |-> <<"Traded as", "Company">>,
            rows |-> << <<Str(<<"A", "t", "h", "e", "x", ":", "nbsp", "E", "E", "E">>),
                          Str(<<"C", "C", "H">>)>>,
                        <<Str(<<"A", "t", "h", "e", "x", ":", "nbsp", "O", "T", "E", "[", "1", "]">>),
                          Str(<<"O", "T", "E">>)>> >>]

NominalPage(k) ==
    [up |-> TRUE,
     tables |-> [i \in 1..(EXCHANGES[k].table_number + 1) |->
                   IF i = EXCHANGES[k].table_number + 1
                   THEN Constituents(k) ELSE Filler]]

URLs == {EXCHANGES[k].url : k \in DOMAIN EXCHANGES}

KeyOfUrl(u) == CHOOSE k \in DOMAIN EXCHANGES : EXCHANGES[k].url = u

\* Exchange(...) built by a caller of the library on the DJIA page, with a
\* table_number of its own; __post_init__ accepts every value
CustomTableNumbers == {-1, 3}

Custom(tn) ==
    [name |-> "CUSTOM",
     url |-> DJIA.url,
     table_number |-> tn,
     pattern_and_replacement |-> DJIA.pattern_and_replacement,
     column_key |-> DJIA.column_key,
     filename |-> "symbols_custom.csv"]

Exchanges == {EXCHANGES[k] : k \in DOMAIN EXCHANGES} \cup {Custom(tn) : tn \in CustomTableNumbers}

\* scripts/symbols.py:13-70  the parameters Symbols(env) keeps for two of
\* its six names, those that have an SE
SymbolsEnvs == {"ftse_100", "athex"}

SymbolsEnv(env) ==
    CASE env = "ftse_100" ->
           [name |-> "FTSE_100", url |-> FTSE_100.url, table_number |-> 4,
            SE |-> "LSE", column_key |-> "Ticker",
            filename |-> "symbols_ftse_100.csv"]
      [] env = "athex" ->
           [name |-> "ATHEX", url |-> ATHEX.url, table_number |-> 2,
            SE |-> "ATHEX", column_key |-> "Traded as",
            filename |-> "symbols_athex.csv"]

Filenames ==
    {e.filename : e \in Exchanges} \cup {SymbolsEnv(env).filename : env \in SymbolsEnvs}

\* NormalizeTicker stripping first and substituting second
NormalizeTickerStripFirst(rule, x) == ReSub(rule, StripFootnotes(x))

\* exchange.py:69-70 on one str
NormalizeTicker(rule, x) == StripFootnotes(ReSub(rule, x))

\* the symbols the lookup service has metadata for when all is well: the
\* tickers of the constituents tables in the form yfinance expects
Listed ==
    {NormalizeTicker(EXCHANGES[k].pattern_and_replacement,
                     Constituents(k).rows[i][1].v) :
        k \in DOMAIN EXCHANGES, i \in 1..2}

\* at most MaxEvents changes of the pages and of the files from outside
MaxEvents == 1

(***************************************************************************)
(* State                                                                   *)
(***************************************************************************)
VARIABLES
    web,        \* url -> the page pd.read_html would get now
    yf,         \* the lookup service: is it down, which symbols it has lost
    files,      \* RAW_DATA_DIR: filename -> file
    fetch,      \* the frame of the running Exchange.get_symbols call
    batch,      \* the frame of the running get_all_symbols call
    prev,       \* the get_symbols call that returned last, nothing having
                \* changed outside since
    written,    \* files a get_symbols call wrote and nothing touched since
    events,     \* changes from outside so far
    one,        \* the frame of the running get_exchange_symbols call
    legacy,     \* the frame of the running Symbols.get_symbols call
    norm,       \* a str, a rule, and what the normalisation makes of them
    parked,     \* the get_symbols frame of the thread that is not running
    incall,     \* the exchanges whose thread is inside ticker_exists
    began,      \* the files as they were when the threads were started
    cli,        \* the frame of the running main() of get_symbols.py
    penv        \* the ParameterEnvironment instances: their two dictionaries

more == <<began, cli, penv>>

\* the state of the callers that are not part of the run at hand
others == <<one, legacy, norm, parked, incall, more>>

vars == <<web, yf, files, fetch, batch, prev, written, events, others>>

NoTable == [columns |-> <<>>, rows |-> <<>>]

NoFrame ==
    [pc |-> "idle", self |-> DJIA, caller |-> "", tables |-> <<>>,
     table |-> NoTable, out |-> <<>>, answers |-> <<>>, html_calls |-> 0,
     wrote |-> FALSE, warm |-> FALSE]

NoBatch == [pc |-> "idle", k |-> 0, results |-> <<>>, failed |-> ""]

NoPrev ==
    [pc |-> "idle", self |-> DJIA, out |-> <<>>, answers |-> <<>>,
     html_calls |-> 0, wrote |-> FALSE]

Terminal == {"DONE", "FAILED", "RAISED"}

NoOne == [pc |-> "idle", exchange_name |-> "", ret |-> "", out |-> <<>>]

NoLegacy ==
    [pc |-> "idle", env |-> SymbolsEnv("ftse_100"), tables |-> <<>>,
     table |-> NoTable, out |-> <<>>, answers |-> <<>>, raised |-> ""]

NoNorm ==
    [pc |-> "idle", rule |-> DJIA.pattern_and_replacement, raw |-> <<>>,
     sub |-> <<>>, out |-> <<>>]

NoCli == [pc |-> "idle", all |-> FALSE, exchange |-> "", status |-> 0]

\* ParameterEnvironment(): self.parameters = {}, self.description = {}
NoParameters == [parameters |-> <<>>, description |-> <<>>]

Instances == {"ins", "outs"}

\* no other caller is there
Alone ==
    /\ one = NoOne
    /\ legacy = NoLegacy
    /\ norm = NoNorm
    /\ parked = NoFrame
    /\ incall = {}
    /\ began = [f \in Filenames |-> Absent]
    /\ cli = NoCli
    /\ penv = [i \in Instances |-> NoParameters]

Init ==
    /\ web = [u \in URLs |-> NominalPage(KeyOfUrl(u))]
    /\ yf = [down |-> FALSE, lost |-> {}]
    /\ files = [f \in Filenames |-> Absent]
    /\ fetch = NoFrame
    /\ batch = NoBatch
    /\ prev = NoPrev
    /\ written = {}
    /\ events = 0
    /\ Alone

(***************************************************************************)
(* Exchange.get_symbols, one action per step of exchange.py:29-81          *)
(***************************************************************************)
\* the frame of a call of self.get_symbols()
Enter(self, caller) ==
    [NoFrame EXCEPT !.pc = "START", !.self = self, !.caller = caller,
                    !.warm = self.filename \in written]

\* what is kept of a call once it has returned or raised
Summary ==
    [pc |-> fetch.pc, self |-> fetch.self, out |-> fetch.out,
     answers |-> fetch.answers, html_calls |-> fetch.html_calls,
     wrote |-> fetch.wrote]

\* a caller of the library calls get_symbols() of a configured Exchange, or
\* of an Exchange it has built
GetSymbols(self) ==
    /\ fetch.pc = "idle" /\ batch.pc = "idle"
    /\ fetch' = Enter(self, "direct")
    /\ UNCHANGED <<web, yf, files, batch, prev, written, events, others>>

\* CacheCheck taking every call for a miss
CacheCheckMiss ==
    /\ fetch.pc = "START"
    /\ fetch' = [fetch EXCEPT !.pc = "FETCHING"]
    /\ UNCHANGED <<web, yf, files, batch, prev, written, events, others>>

\* exchange.py:37-40  filepath.exists()
CacheCheck ==
    /\ fetch.pc = "START"
    /\ fetch' = [fetch EXCEPT !.pc = IF files[fetch.self.filename].exists
                                     THEN "CACHED" ELSE "FETCHING"]
    /\ UNCHANGED <<web, yf, files, batch, prev, written, events, others>>

\* CacheRead taking a file it cannot read for a miss
CacheReadRefetch ==
    /\ fetch.pc = "CACHED"
    /\ LET file == files[fetch.self.filename]
           df == ReadCsv(file)
       IN  IF CsvRaises(file) \/ ~HasColumn(df, fetch.self.column_key)
           THEN fetch' = [fetch EXCEPT !.pc = "FETCHING"]
           ELSE fetch' = [fetch EXCEPT !.pc = "DONE",
                              !.out = ColumnValues(df, fetch.self.column_key)]
    /\ UNCHANGED <<web, yf, files, batch, prev, written, events, others>>

\* exchange.py:41-46  pd.read_csv(filepath); df[self.column_key].tolist()
CacheRead ==
    /\ fetch.pc = "CACHED"
    /\ LET file == files[fetch.self.filename]
           df == ReadCsv(file)
       IN  IF CsvRaises(file) \/ ~HasColumn(df, fetch.self.column_key)
           THEN fetch' = [fetch EXCEPT !.pc = "RAISED"]
           ELSE fetch' = [fetch EXCEPT !.pc = "DONE",
                              !.out = ColumnValues(df, fetch.self.column_key)]
    /\ UNCHANGED <<web, yf, files, batch, prev, written, events, others>>

\* ReadHtml without the except clauses of exchange.py:52-57
ReadHtmlUncaught ==
    /\ fetch.pc = "FETCHING"
    /\ LET page == web[fetch.self.url]
       IN  IF ~page.up \/ page.tables = <<>>
           THEN fetch' = [fetch EXCEPT !.pc = "RAISED", !.html_calls = @ + 1]
           ELSE fetch' = [fetch EXCEPT !.pc = "PARSED", !.tables = page.tables,
                                       !.html_calls = @ + 1]
    /\ UNCHANGED <<web, yf, files, batch, prev, written, events, others>>

\* exchange.py:49-57  pd.read_html(self.url); it raises ValueError when the
\* page has no table and any other exception when the page cannot be got
ReadHtml ==
    /\ fetch.pc = "FETCHING"
    /\ LET page == web[fetch.self.url]
       IN  IF ~page.up \/ page.tables = <<>>
           THEN fetch' = [fetch EXCEPT !.pc = "FAILED", !.out = <<>>,
                                       !.html_calls = @ + 1]
           ELSE fetch' = [fetch EXCEPT !.pc = "PARSED", !.tables = page.tables,
                                       !.html_calls = @ + 1]
    /\ UNCHANGED <<web, yf, files, batch, prev, written, events, others>>

\* tables[n] of a Python list: positions -len..-1 count from the end
ListIndexValid(n, len) == n >= -len /\ n < len

ListItem(list, n) ==
    IF n >= 0 THEN list[n + 1] ELSE list[Len(list) + n + 1]

\* SelectTable leaving an empty file behind when there is no such table
SelectTableCachesFailure ==
    /\ fetch.pc = "PARSED"
    /\ IF ListIndexValid(fetch.self.table_number, Len(fetch.tables))
       THEN /\ fetch' = [fetch EXCEPT !.pc = "SELECTED",
                             !.table = ListItem(fetch.tables, fetch.self.table_number)]
            /\ files' = files
       ELSE /\ fetch' = [fetch EXCEPT !.pc = "FAILED", !.out = <<>>]
            /\ files' = [files EXCEPT ![fetch.self.filename] =
                             [exists |-> TRUE, header |-> <<>>, lines |-> <<>>]]
    /\ UNCHANGED <<web, yf, batch, prev, written, events, others>>

\* exchange.py:59-63  tables[self.table_number]
SelectTable ==
    /\ fetch.pc = "PARSED"
    /\ IF ListIndexValid(fetch.self.table_number, Len(fetch.tables))
       THEN fetch' = [fetch EXCEPT !.pc = "SELECTED",
                          !.table = ListItem(fetch.tables, fetch.self.table_number)]
       ELSE fetch' = [fetch EXCEPT !.pc = "FAILED", !.out = <<>>]
    /\ UNCHANGED <<web, yf, files, batch, prev, written, events, others>>

\* WithColumn giving every row the value of the first
WithColumnFirst(table, key, values) ==
    [table EXCEPT !.rows =
        [i \in 1..Len(table.rows) |->
            [table.rows[i] EXCEPT ![Column(table, key)] = values[1]]]]

\* table[self.column_key] = [...] leaves the other columns as they are
WithColumn(table, key, values) ==
    [table EXCEPT !.rows =
        [i \in 1..Len(table.rows) |->
            [table.rows[i] EXCEPT ![Column(table, key)] = values[i]]]]

\* exchange.py:68-71  KeyError without the column, TypeError from re.sub on
\* a cell that is not a str
Normalize ==
    /\ fetch.pc = "SELECTED"
    /\ IF ~HasColumn(fetch.table, fetch.self.column_key)
       THEN fetch' = [fetch EXCEPT !.pc = "RAISED"]
       ELSE LET raw == ColumnValues(fetch.table, fetch.self.column_key)
            IN  IF \E i \in 1..Len(raw) : raw[i].t # "str"
                THEN fetch' = [fetch EXCEPT !.pc = "RAISED"]
                ELSE fetch' = [fetch EXCEPT !.pc = "NORMALIZED",
                         !.table = WithColumn(fetch.table, fetch.self.column_key,
                             [i \in 1..Len(raw) |->
                                 Str(NormalizeTicker(fetch.self.pattern_and_replacement,
                                                     raw[i].v))])]
    /\ UNCHANGED <<web, yf, files, batch, prev, written, events, others>>

\* Persist writing the table of every exchange to one file
PersistShared ==
    /\ fetch.pc = "NORMALIZED"
    /\ files' = [files EXCEPT ![DJIA.filename] = ToCsv(fetch.table)]
    /\ written' = written \cup {DJIA.filename}
    /\ fetch' = [fetch EXCEPT !.pc = "PERSISTED", !.wrote = TRUE]
    /\ UNCHANGED <<web, yf, batch, prev, events, others>>

\* exchange.py:73-75  self.table.to_csv(filepath, index=False)
Persist ==
    /\ fetch.pc = "NORMALIZED"
    /\ files' = [files EXCEPT ![fetch.self.filename] = ToCsv(fetch.table)]
    /\ written' = written \cup {fetch.self.filename}
    /\ fetch' = [fetch EXCEPT !.pc = "PERSISTED", !.wrote = TRUE]
    /\ UNCHANGED <<web, yf, batch, prev, events, others>>

\* what yf.Ticker(ticker_symbol).info does now: it raises, or gives the
\* metadata of the symbol, or gives nothing
YfInfo(symbol) ==
    IF yf.down THEN "error"
    ELSE IF symbol \in Listed \ yf.lost THEN "info" ELSE "empty"

\* exchange.py:84-101  bool(ticker.info), False on any exception
ticker_exists(symbol) == YfInfo(symbol) = "info"

\* ValidateTicker starting on the table before it is written
ValidateTickerBeforeWrite ==
    /\ fetch.pc \in {"NORMALIZED", "PERSISTED", "VALIDATING"}
    /\ Len(fetch.answers) < Len(fetch.table.rows)
    /\ LET tickers == ColumnValues(fetch.table, fetch.self.column_key)
       IN  fetch' = [fetch EXCEPT !.pc = "VALIDATING",
                        !.answers = Append(@, ticker_exists(tickers[Len(@) + 1].v))]
    /\ UNCHANGED <<web, yf, files, batch, prev, written, events, others>>

\* exchange.py:80, one ticker of the list comprehension
ValidateTicker ==
    /\ fetch.pc \in {"PERSISTED", "VALIDATING"}
    /\ Len(fetch.answers) < Len(fetch.table.rows)
    /\ LET tickers == ColumnValues(fetch.table, fetch.self.column_key)
       IN  fetch' = [fetch EXCEPT !.pc = "VALIDATING",
                        !.answers = Append(@, ticker_exists(tickers[Len(@) + 1].v))]
    /\ UNCHANGED <<web, yf, files, batch, prev, written, events, others>>

\* Substitute deciding every position by the first answer
SubstituteFirst(tickers, answers) ==
    [i \in 1..Len(tickers) |-> IF answers[1] THEN tickers[i] ELSE Str(INVALID)]

\* the list exchange.py:80 builds from the answers
Substitute(tickers, answers) ==
    [i \in 1..Len(tickers) |-> IF answers[i] THEN tickers[i] ELSE Str(INVALID)]

\* exchange.py:80-81  the list is complete and returned
ValidateDone ==
    /\ fetch.pc \in {"PERSISTED", "VALIDATING"}
    /\ Len(fetch.answers) = Len(fetch.table.rows)
    /\ fetch' = [fetch EXCEPT !.pc = "DONE",
                    !.out = Substitute(ColumnValues(fetch.table, fetch.self.column_key),
                                       fetch.answers)]
    /\ UNCHANGED <<web, yf, files, batch, prev, written, events, others>>

\* the call returns to, or raises into, the caller of the library
Return ==
    /\ fetch.pc \in Terminal /\ fetch.caller = "direct"
    /\ prev' = Summary
    /\ fetch' = NoFrame
    /\ UNCHANGED <<web, yf, files, batch, written, events, others>>

Fetch ==
    \/ \E self \in Exchanges : GetSymbols(self)
    \/ CacheCheck \/ CacheRead \/ ReadHtml \/ SelectTable \/ Normalize
    \/ Persist \/ ValidateTicker \/ ValidateDone \/ Return

(***************************************************************************)
(* get_all_symbols, get_symbols.py:16-27                                   *)
(***************************************************************************)
\* get_symbols.py:22  results = {}
BatchStart ==
    /\ batch.pc = "idle" /\ fetch.pc = "idle"
    /\ batch' = [NoBatch EXCEPT !.pc = "loop", !.k = 1]
    /\ UNCHANGED <<web, yf, files, fetch, prev, written, events, others>>

\* get_symbols.py:23-25  the next item of EXCHANGES.items(); its get_symbols()
BatchCall ==
    /\ batch.pc = "loop" /\ batch.k <= Len(ExchangeKeys)
    /\ fetch' = Enter(EXCHANGES[ExchangeKeys[batch.k]], "batch")
    /\ batch' = [batch EXCEPT !.pc = "call"]
    /\ UNCHANGED <<web, yf, files, prev, written, events, others>>

\* get_symbols.py:25-26  results[name] = symbols
BatchStore ==
    /\ batch.pc = "call" /\ fetch.pc \in {"DONE", "FAILED"}
    /\ batch' = [batch EXCEPT !.pc = "loop", !.k = @ + 1,
                    !.results = (ExchangeKeys[batch.k] :> fetch.out) @@ @]
    /\ prev' = Summary
    /\ fetch' = NoFrame
    /\ UNCHANGED <<web, yf, files, written, events, others>>

\* get_symbols.py:25  nothing catches what get_symbols() raises
BatchRaise ==
    /\ batch.pc = "call" /\ fetch.pc = "RAISED"
    /\ batch' = [batch EXCEPT !.pc = "raised", !.failed = ExchangeKeys[batch.k]]
    /\ prev' = Summary
    /\ fetch' = NoFrame
    /\ UNCHANGED <<web, yf, files, written, events, others>>

\* get_symbols.py:27  return results
BatchReturn ==
    /\ batch.pc = "loop" /\ batch.k > Len(ExchangeKeys)
    /\ batch' = [batch EXCEPT !.pc = "done"]
    /\ UNCHANGED <<web, yf, files, fetch, prev, written, events, others>>

\* the caller has taken the mapping, or the exception
BatchEnd ==
    /\ batch.pc \in {"done", "raised"}
    /\ batch' = NoBatch
    /\ UNCHANGED <<web, yf, files, fetch, prev, written, events, others>>

Batch ==
    \/ BatchStart \/ BatchCall \/ BatchStore \/ BatchRaise \/ BatchReturn
    \/ BatchEnd

(***************************************************************************)
(* Between two calls the pages and the lookup service change, and the      *)
(* files under RAW_DATA_DIR are deleted or damaged                         *)
(***************************************************************************)
Outside == events < MaxEvents /\ fetch.pc = "idle" /\ batch.pc = "idle"

Disturb ==
    /\ events' = events + 1
    /\ prev' = NoPrev

\* the site goes down, or comes back
SiteFlip(u) ==
    /\ Outside /\ Disturb
    /\ web' = [web EXCEPT ![u].up = ~@]
    /\ UNCHANGED <<yf, files, fetch, batch, written, others>>

\* the page loses its first table
DropTable(u) ==
    /\ Outside /\ Disturb
    /\ web[u].tables # <<>>
    /\ web' = [web EXCEPT ![u].tables = Tail(@)]
    /\ UNCHANGED <<yf, files, fetch, batch, written, others>>

Reverse(seq) == [i \in 1..Len(seq) |-> seq[Len(seq) + 1 - i]]

\* the rows of the tables of the page are put in another order
ReorderRows(u) ==
    /\ Outside /\ Disturb
    /\ \E t \in 1..Len(web[u].tables) : Len(web[u].tables[t].rows) > 1
    /\ web' = [web EXCEPT ![u].tables =
                  [t \in 1..Len(@) |-> [@[t] EXCEPT !.rows = Reverse(@)]]]
    /\ UNCHANGED <<yf, files, fetch, batch, written, others>>

\* cells an editor of the page may leave in the first column of a row: an
\* empty cell (read_html gives NaN), a bare footnote
EditCells == {NaN, Str(<<"[", "1", "]">>)}

\* the first cell of the first row of the last table of the page is rewritten
EditCell(u, c) ==
    /\ Outside /\ Disturb
    /\ web[u].tables # <<>>
    /\ web[u].tables[Len(web[u].tables)].rows # <<>>
    /\ web' = [web EXCEPT ![u].tables[Len(web[u].tables)].rows[1][1] = c]
    /\ UNCHANGED <<yf, files, fetch, batch, written, others>>

\* the first column of the last table of the page gets another heading
RenameColumn(u) ==
    /\ Outside /\ Disturb
    /\ web[u].tables # <<>>
    /\ web' = [web EXCEPT ![u].tables[Len(web[u].tables)].columns[1] = "Code"]
    /\ UNCHANGED <<yf, files, fetch, batch, written, others>>

\* the lookup service goes down, or comes back
YfFlip ==
    /\ Outside /\ Disturb
    /\ yf' = [yf EXCEPT !.down = ~@]
    /\ UNCHANGED <<web, files, fetch, batch, written, others>>

\* the lookup service loses the metadata of a symbol
Delist(symbol) ==
    /\ Outside /\ Disturb
    /\ symbol \notin yf.lost
    /\ yf' = [yf EXCEPT !.lost = @ \cup {symbol}]
    /\ UNCHANGED <<web, files, fetch, batch, written, others>>

\* somebody deletes the file
DeleteFile(f) ==
    /\ Outside /\ Disturb
    /\ files[f].exists
    /\ files' = [files EXCEPT ![f] = Absent]
    /\ written' = written \ {f}
    /\ UNCHANGED <<web, yf, fetch, batch, others>>

\* contents read_csv cannot parse: an empty file, a line with too many fields
Garbage ==
    {[exists |-> TRUE, header |-> <<>>, lines |-> <<>>],
     [exists |-> TRUE, header |-> <<"x">>,
      lines |-> << <<<<"1">>>>, <<<<"1">>, <<"2">>, <<"3">>>> >>]}

\* the file is damaged, or left damaged by something else
CorruptFile(f, g) ==
    /\ Outside /\ Disturb
    /\ files' = [files EXCEPT ![f] = g]
    /\ written' = written \ {f}
    /\ UNCHANGED <<web, yf, fetch, batch, others>>

Environment ==
    \/ \E u \in URLs : SiteFlip(u) \/ DropTable(u) \/ ReorderRows(u) \/ RenameColumn(u)
    \/ \E u \in URLs, c \in EditCells : EditCell(u, c)
    \/ YfFlip
    \/ \E symbol \in Listed : Delist(symbol)
    \/ \E f \in Filenames : DeleteFile(f)
    \/ \E f \in Filenames, g \in Garbage : CorruptFile(f, g)

Next == Fetch \/ Batch \/ Environment

Spec == Init /\ [][Next]_vars

(***************************************************************************)
(* scripts/symbols.py: Symbols.get_symbols, the script the package grew    *)
(* out of; it shares RAW_DATA_DIR and the lookup service with it           *)
(***************************************************************************)
\* table[column_key] + text of a column of str: a missing value stays missing
SeriesAdd(column, text) ==
    [i \in 1..Len(column) |->
        IF column[i].t = "str" THEN Str(column[i].v \o text) ELSE NaN]

RECURSIVE RemoveFrom(_, _, _)
RemoveFrom(s, i, lit) ==
    IF i > Len(s) THEN <<>>
    ELSE IF StartsWithAt(s, i, lit) THEN RemoveFrom(s, i + Len(lit), lit)
         ELSE <<s[i]>> \o RemoveFrom(s, i + 1, lit)

\* x.replace(lit, '')
StrRemove(x, lit) == RemoveFrom(x, 1, lit)

AthexPrefix == <<"A", "t", "h", "e", "x", ":", "nbsp">>

\* scripts/symbols.py:135-141 on a column that has a first value, and for
\* ATHEX str values only
SymbolsSuffix(SE, column) ==
    IF SE = "LSE" /\ column[1].t = "str"
    THEN SeriesAdd(column, <<".", "L">>)
    ELSE IF SE = "ATHEX" /\ column[1].t = "str"
         THEN [i \in 1..Len(column) |->
                 Str(StrRemove(SeriesAdd(column, <<".", "A", "T">>)[i].v, AthexPrefix))]
         ELSE column

\* scripts/symbols.py:135-141 raises: values[0] of a column without rows,
\* x.replace of a missing value
SymbolsSuffixRaises(SE, column) ==
    /\ SE \in {"LSE", "ATHEX"}
    /\ \/ column = <<>>
       \/ /\ SE = "ATHEX" /\ column[1].t = "str"
          /\ \E i \in 1..Len(column) : column[i].t # "str"

\* scripts/symbols.py:142 on the column
SymbolsStrip(column) ==
    [i \in 1..Len(column) |-> Str(StripFootnotes(column[i].v))]

\* s = Symbols(env); s.get_symbols()
SymbolsGetSymbols(env) ==
    /\ legacy.pc = "idle"
    /\ legacy' = [NoLegacy EXCEPT !.pc = "FETCHING", !.env = SymbolsEnv(env)]
    /\ UNCHANGED <<web, yf, files, fetch, batch, prev, written, events,
                   one, norm, parked, incall, more>>

\* scripts/symbols.py:131  pd.read_html(url), nothing catches what it raises
SymbolsReadHtml ==
    /\ legacy.pc = "FETCHING"
    /\ LET page == web[legacy.env.url]
       IN  IF ~page.up \/ page.tables = <<>>
           THEN legacy' = [legacy EXCEPT !.pc = "RAISED", !.raised = "read_html"]
           ELSE legacy' = [legacy EXCEPT !.pc = "PARSED", !.tables = page.tables]
    /\ UNCHANGED <<web, yf, files, fetch, batch, prev, written, events,
                   one, norm, parked, incall, more>>

\* scripts/symbols.py:132  tables[table_number]
SymbolsSelectTable ==
    /\ legacy.pc = "PARSED"
    /\ IF ListIndexValid(legacy.env.table_number, Len(legacy.tables))
       THEN legacy' = [legacy EXCEPT !.pc = "SELECTED",
                          !.table = ListItem(legacy.tables, legacy.env.table_number)]
       ELSE legacy' = [legacy EXCEPT !.pc = "RAISED", !.raised = "tables"]
    /\ UNCHANGED <<web, yf, files, fetch, batch, prev, written, events,
                   one, norm, parked, incall, more>>

\* scripts/symbols.py:133-134  the table goes to the file as it was fetched
SymbolsSave ==
    /\ legacy.pc = "SELECTED"
    /\ files' = [files EXCEPT ![legacy.env.filename] = ToCsv(legacy.table)]
    /\ written' = written \ {legacy.env.filename}
    /\ legacy' = [legacy EXCEPT !.pc = "SAVED"]
    /\ UNCHANGED <<web, yf, fetch, batch, prev, events,
                   one, norm, parked, incall, more>>

\* scripts/symbols.py:135-142  the suffix of the exchange, then the footnotes
SymbolsNormalize ==
    /\ legacy.pc = "SAVED"
    /\ IF ~HasColumn(legacy.table, legacy.env.column_key)
       THEN legacy' = [legacy EXCEPT !.pc = "RAISED", !.raised = "column"]
       ELSE LET raw == ColumnValues(legacy.table, legacy.env.column_key)
                suffixed == SymbolsSuffix(legacy.env.SE, raw)
            IN  IF SymbolsSuffixRaises(legacy.env.SE, raw)
                THEN legacy' = [legacy EXCEPT !.pc = "RAISED", !.raised = "suffix"]
                ELSE IF \E i \in 1..Len(suffixed) : suffixed[i].t # "str"
                     THEN legacy' = [legacy EXCEPT !.pc = "RAISED",
                                                   !.raised = "re.sub"]
                     ELSE legacy' = [legacy EXCEPT !.pc = "VALIDATING",
                              !.table = WithColumn(legacy.table, legacy.env.column_key,
                                                   SymbolsStrip(suffixed))]
    /\ UNCHANGED <<web, yf, files, fetch, batch, prev, written, events,
                   one, norm, parked, incall, more>>

\* scripts/symbols.py:73-78 and :145  one ticker of the list comprehension;
\* what yf raises leaves ticker_exists and get_symbols
SymbolsValidateTicker ==
    /\ legacy.pc = "VALIDATING"
    /\ Len(legacy.answers) < Len(legacy.table.rows)
    /\ LET tickers == ColumnValues(legacy.table, legacy.env.column_key)
           info == YfInfo(tickers[Len(legacy.answers) + 1].v)
       IN  IF info = "error"
           THEN legacy' = [legacy EXCEPT !.pc = "RAISED", !.raised = "ticker_exists"]
           ELSE legacy' = [legacy EXCEPT !.answers = Append(@, info = "info")]
    /\ UNCHANGED <<web, yf, files, fetch, batch, prev, written, events,
                   one, norm, parked, incall, more>>

\* scripts/symbols.py:145-146
SymbolsValidateDone ==
    /\ legacy.pc = "VALIDATING"
    /\ Len(legacy.answers) = Len(legacy.table.rows)
    /\ legacy' = [legacy EXCEPT !.pc = "DONE",
                     !.out = Substitute(ColumnValues(legacy.table, legacy.env.column_key),
                                        legacy.answers)]
    /\ UNCHANGED <<web, yf, files, fetch, batch, prev, written, events,
                   one, norm, parked, incall, more>>

\* the script has printed the list, or ended on the exception
SymbolsReturn ==
    /\ legacy.pc \in {"DONE", "RAISED"}
    /\ legacy' = NoLegacy
    /\ UNCHANGED <<web, yf, files, fetch, batch, prev, written, events,
                   one, norm, parked, incall, more>>

Symbols ==
    \/ \E env \in SymbolsEnvs : SymbolsGetSymbols(env)
    \/ SymbolsReadHtml \/ SymbolsSelectTable \/ SymbolsSave \/ SymbolsNormalize
    \/ SymbolsValidateTicker \/ SymbolsValidateDone \/ SymbolsReturn

\* the script run again and again while the pages and the service change
NextSymbols == Symbols \/ Environment

SpecSymbols == Init /\ [][NextSymbols]_vars

(***************************************************************************)
(* get_exchange_symbols, get_symbols.py:30-45                              *)
(***************************************************************************)
\* the names a caller may ask for: the keys of EXCHANGES and one that is none
ExchangeNames == DOMAIN EXCHANGES \cup {"NYSE"}

\* get_exchange_symbols(exchange_name)
GetExchangeSymbols(exchange_name) ==
    /\ one.pc = "idle" /\ fetch.pc = "idle" /\ batch.pc = "idle"
    /\ one' = [NoOne EXCEPT !.pc = "START", !.exchange_name = exchange_name]
    /\ UNCHANGED <<web, yf, files, fetch, batch, prev, written, events,
                   legacy, norm, parked, incall, more>>

\* OneLookup taking the first exchange for a name it does not know
OneLookupFallback ==
    /\ one.pc = "START"
    /\ IF one.exchange_name \notin DOMAIN EXCHANGES
       THEN /\ one' = [one EXCEPT !.pc = "CALL"]
            /\ fetch' = Enter(EXCHANGES[ExchangeKeys[1]], "one")
       ELSE /\ one' = [one EXCEPT !.pc = "CALL"]
            /\ fetch' = Enter(EXCHANGES[one.exchange_name], "one")
    /\ UNCHANGED <<web, yf, files, batch, prev, written, events,
                   legacy, norm, parked, incall, more>>

\* get_symbols.py:39-45  None for a name that is no key of EXCHANGES, or the
\* call of get_symbols() of the exchange
OneLookup ==
    /\ one.pc = "START"
    /\ IF one.exchange_name \notin DOMAIN EXCHANGES
       THEN /\ one' = [one EXCEPT !.pc = "DONE", !.ret = "None"]
            /\ fetch' = fetch
       ELSE /\ one' = [one EXCEPT !.pc = "CALL"]
            /\ fetch' = Enter(EXCHANGES[one.exchange_name], "one")
    /\ UNCHANGED <<web, yf, files, batch, prev, written, events,
                   legacy, norm, parked, incall, more>>

\* get_symbols.py:45  return exchange.get_symbols()
OneReturn ==
    /\ one.pc = "CALL" /\ fetch.pc \in {"DONE", "FAILED"}
    /\ one' = [one EXCEPT !.pc = "DONE", !.ret = "list", !.out = fetch.out]
    /\ prev' = Summary
    /\ fetch' = NoFrame
    /\ UNCHANGED <<web, yf, files, batch, written, events,
                   legacy, norm, parked, incall, more>>

\* get_symbols.py:45  nothing catches what get_symbols() raises
OneRaise ==
    /\ one.pc = "CALL" /\ fetch.pc = "RAISED"
    /\ one' = [one EXCEPT !.pc = "DONE", !.ret = "raise"]
    /\ prev' = Summary
    /\ fetch' = NoFrame
    /\ UNCHANGED <<web, yf, files, batch, written, events,
                   legacy, norm, parked, incall, more>>

\* the caller has taken the list, the None or the exception
OneEnd ==
    /\ one.pc = "DONE"
    /\ one' = NoOne
    /\ UNCHANGED <<web, yf, files, fetch, batch, prev, written, events,
                   legacy, norm, parked, incall, more>>

\* the pages, the service and the files change between two calls
OneEnvironment == one.pc = "idle" /\ Environment

NextOne ==
    \/ \E exchange_name \in ExchangeNames : GetExchangeSymbols(exchange_name)
    \/ OneLookup \/ OneReturn \/ OneRaise \/ OneEnd
    \/ CacheCheck \/ CacheRead \/ ReadHtml \/ SelectTable \/ Normalize
    \/ Persist \/ ValidateTicker \/ ValidateDone
    \/ OneEnvironment

SpecOne == Init /\ [][NextOne]_vars

(***************************************************************************)
(* The normalisation of one str on its own: exchange.py:68-70 with each    *)
(* configured pattern                                                      *)
(***************************************************************************)
\* config/exchanges.py:63-66, the pattern and the lambda of CSI_100 / CSI_300
CsiRule == [kind |-> "csi"]

PatternRules ==
    {DJIA.pattern_and_replacement, FTSE_100.pattern_and_replacement,
     ATHEX.pattern_and_replacement, CsiRule}

\* the cells of a page: a beginning followed by at most MaxTail characters
MaxTail == 4

TailChars == {"E", "6", " ", "[", "]"}

Tails == UNION {[1..k -> TailChars] : k \in 0..MaxTail}

Heads ==
    {<<>>, <<"B", "P">>, <<"A", "t", "h", "e", "x", ":">>,
     <<"S", "S", "E", ":">>, <<"S", "Z", "S", "E", ":">>}

Samples ==
    {<<"M", "S", "F", "T", "[", "1", "]">>,
     <<"M", "S", "F", "T", "%", "5", "B", "1", "%", "5", "D">>,
     <<"A", "t", "h", "e", "x", ":", "nbsp", "O", "T", "E", "[", "1", "]">>,
     <<"S", "S", "E", ":", "nbsp", "6", "0", "0", "0", "0", "0">>,
     <<"S", "Z", "S", "E", ":", " ", "0", "0", "0", "0", "0", "1">>}

Raws == {h \o t : h \in Heads, t \in Tails} \cup Samples

InitNorm ==
    /\ web = [u \in URLs |-> NominalPage(KeyOfUrl(u))]
    /\ yf = [down |-> FALSE, lost |-> {}]
    /\ files = [f \in Filenames |-> Absent]
    /\ fetch = NoFrame /\ batch = NoBatch /\ prev = NoPrev
    /\ written = {} /\ events = 0
    /\ one = NoOne /\ legacy = NoLegacy /\ parked = NoFrame /\ incall = {}
    /\ began = [f \in Filenames |-> Absent] /\ cli = NoCli
    /\ penv = [i \in Instances |-> NoParameters]
    /\ norm \in {[NoNorm EXCEPT !.pc = "in", !.rule = rule, !.raw = raw] :
                    rule \in PatternRules, raw \in Raws}

\* exchange.py:68-70 on the str
NormalizeApply ==
    /\ norm.pc = "in" /\ norm.rule \in PatternRules
    /\ norm' = [norm EXCEPT !.pc = "out",
                            !.sub = ReSub(norm.rule, norm.raw),
                            !.out = NormalizeTicker(norm.rule, norm.raw)]
    /\ UNCHANGED <<web, yf, files, fetch, batch, prev, written, events,
                   one, legacy, parked, incall, more>>

NextNorm == NormalizeApply

SpecNorm == InitNorm /\ [][NextNorm]_vars

(***************************************************************************)
(* Two threads of a caller, each in the get_symbols() of an exchange of    *)
(* its own: fetch is the frame of the thread that runs, parked the frame   *)
(* of the one that waits, and the interpreter may switch at every step     *)
(***************************************************************************)
\* t1 = Thread(target=e1.get_symbols); t2 = Thread(target=e2.get_symbols)
ThreadsStart(e1, e2) ==
    /\ fetch.pc = "idle" /\ parked.pc = "idle" /\ batch.pc = "idle"
    /\ e1 # e2
    /\ fetch' = Enter(e1, "thread")
    /\ parked' = Enter(e2, "thread")
    /\ began' = files
    /\ UNCHANGED <<web, yf, files, batch, prev, written, events,
                   one, legacy, norm, incall, cli, penv>>

\* the interpreter hands the processor to the other thread
Switch ==
    /\ fetch.caller = "thread" /\ parked.pc \notin Terminal
    /\ fetch' = parked
    /\ parked' = fetch
    /\ UNCHANGED <<web, yf, files, batch, prev, written, events,
                   one, legacy, norm, incall, more>>

\* exchange.py:80 and :94-95  the thread enters self.ticker_exists(ticker);
\* nothing is acquired on the way in
TickerExistsEnter ==
    /\ fetch.pc \in {"PERSISTED", "VALIDATING"}
    /\ Len(fetch.answers) < Len(fetch.table.rows)
    /\ fetch.self.name \notin incall
    /\ incall' = incall \cup {fetch.self.name}
    /\ fetch' = [fetch EXCEPT !.pc = "VALIDATING"]
    /\ UNCHANGED <<web, yf, files, batch, prev, written, events,
                   one, legacy, norm, parked, more>>

\* exchange.py:96-101  the lookup and time.sleep(0.1) are over, the thread
\* leaves ticker_exists with its answer
TickerExistsLeave ==
    /\ fetch.pc = "VALIDATING"
    /\ fetch.self.name \in incall
    /\ incall' = incall \ {fetch.self.name}
    /\ LET tickers == ColumnValues(fetch.table, fetch.self.column_key)
       IN  fetch' = [fetch EXCEPT
                        !.answers = Append(@, ticker_exists(tickers[Len(@) + 1].v))]
    /\ UNCHANGED <<web, yf, files, batch, prev, written, events,
                   one, legacy, norm, parked, more>>

\* t1.join(); t2.join()
ThreadsJoin ==
    /\ fetch.caller = "thread"
    /\ fetch.pc \in Terminal /\ parked.pc \in Terminal
    /\ fetch' = NoFrame
    /\ parked' = NoFrame
    /\ UNCHANGED <<web, yf, files, batch, prev, written, events,
                   one, legacy, norm, incall, more>>

\* exchange.py:29-81 as one function of the file the call finds: how the
\* call ends, the list it returns and the file it leaves, when nothing else
\* runs between its first line and its last
GetSymbolsAlone(self, file) ==
    LET page == web[self.url]
        key == self.column_key
        end(pc, out, left) == [pc |-> pc, out |-> out, file |-> left]
    IN  IF file.exists
        THEN IF CsvRaises(file) \/ ~HasColumn(ReadCsv(file), key)
             THEN end("RAISED", <<>>, file)
             ELSE end("DONE", ColumnValues(ReadCsv(file), key), file)
        ELSE IF ~page.up \/ page.tables = <<>>
                \/ ~ListIndexValid(self.table_number, Len(page.tables))
             THEN end("FAILED", <<>>, file)
             ELSE LET table == ListItem(page.tables, self.table_number)
                      raw == ColumnValues(table, key)
                      tickers == [i \in 1..Len(raw) |->
                          Str(NormalizeTicker(self.pattern_and_replacement, raw[i].v))]
                  IN  IF ~HasColumn(table, key)
                         \/ \E i \in 1..Len(raw) : raw[i].t # "str"
                      THEN end("RAISED", <<>>, file)
                      ELSE end("DONE",
                               Substitute(tickers,
                                   [i \in 1..Len(raw) |-> ticker_exists(tickers[i].v)]),
                               ToCsv(WithColumn(table, key, tickers)))

NextThreads ==
    \/ \E k1, k2 \in DOMAIN EXCHANGES : ThreadsStart(EXCHANGES[k1], EXCHANGES[k2])
    \/ Switch
    \/ CacheCheck \/ CacheRead \/ ReadHtml \/ SelectTable \/ Normalize
    \/ Persist \/ TickerExistsEnter \/ TickerExistsLeave \/ ValidateDone
    \/ ThreadsJoin
    \/ \E u \in URLs : SiteFlip(u) \/ RenameColumn(u)
    \/ YfFlip
    \/ \E f \in Filenames, g \in Garbage : CorruptFile(f, g)

SpecThreads == Init /\ [][NextThreads]_vars

(***************************************************************************)
(* main, get_symbols.py:48-107: one run of the command line per process;   *)
(* cli.status is the exit status of the process                            *)
(***************************************************************************)
\* what follows --exchange on the command line; "" when the option is absent
ExchangeArgs == ExchangeNames \cup {""}

\* get_symbols.py:82-90  parser.parse_args(): a name outside choices ends the
\* process with status 2
Main(all, exchange) ==
    /\ cli.pc = "idle" /\ fetch.pc = "idle" /\ batch.pc = "idle" /\ one.pc = "idle"
    /\ cli' = IF exchange \notin DOMAIN EXCHANGES \cup {""}
              THEN [NoCli EXCEPT !.pc = "exit", !.all = all,
                                 !.exchange = exchange, !.status = 2]
              ELSE [NoCli EXCEPT !.pc = "parsed", !.all = all,
                                 !.exchange = exchange]
    /\ UNCHANGED <<web, yf, files, fetch, batch, prev, written, events,
                   one, legacy, norm, parked, incall, began, penv>>

\* get_symbols.py:92-93  if args.all: results = get_all_symbols()
CliAll ==
    /\ cli.pc = "parsed" /\ cli.all
    /\ cli' = [cli EXCEPT !.pc = "all"]
    /\ batch' = [NoBatch EXCEPT !.pc = "loop", !.k = 1]
    /\ UNCHANGED <<web, yf, files, fetch, prev, written, events,
                   one, legacy, norm, parked, incall, began, penv>>

\* get_symbols.py:94-96  the lines printed, then the end of main; an
\* exception that left get_all_symbols leaves main too, and the interpreter
\* ends with status 1
CliAllExit ==
    /\ cli.pc = "all" /\ batch.pc \in {"done", "raised"}
    /\ cli' = [cli EXCEPT !.pc = "exit",
                          !.status = IF batch.pc = "raised" THEN 1 ELSE 0]
    /\ batch' = NoBatch
    /\ UNCHANGED <<web, yf, files, fetch, prev, written, events,
                   one, legacy, norm, parked, incall, began, penv>>

\* get_symbols.py:97-98  elif args.exchange: get_exchange_symbols(args.exchange)
CliOne ==
    /\ cli.pc = "parsed" /\ ~cli.all /\ cli.exchange # ""
    /\ cli' = [cli EXCEPT !.pc = "one"]
    /\ one' = [NoOne EXCEPT !.pc = "START", !.exchange_name = cli.exchange]
    /\ UNCHANGED <<web, yf, files, fetch, batch, prev, written, events,
                   legacy, norm, parked, incall, began, penv>>

\* get_symbols.py:99-101  if symbols: print, then the end of main; an
\* exception that left get_exchange_symbols leaves main too
CliOneExit ==
    /\ cli.pc = "one" /\ one.pc = "DONE"
    /\ cli' = [cli EXCEPT !.pc = "exit",
                          !.status = IF one.ret = "raise" THEN 1 ELSE 0]
    /\ one' = NoOne
    /\ UNCHANGED <<web, yf, files, fetch, batch, prev, written, events,
                   legacy, norm, parked, incall, began, penv>>

\* get_symbols.py:102-103  else: parser.print_help()
CliHelp ==
    /\ cli.pc = "parsed" /\ ~cli.all /\ cli.exchange = ""
    /\ cli' = [cli EXCEPT !.pc = "exit"]
    /\ UNCHANGED <<web, yf, files, fetch, batch, prev, written, events,
                   one, legacy, norm, parked, incall, began, penv>>

\* the process is gone; the command may be run again
CliEnd ==
    /\ cli.pc = "exit"
    /\ cli' = NoCli
    /\ UNCHANGED <<web, yf, files, fetch, batch, prev, written, events,
                   one, legacy, norm, parked, incall, began, penv>>

\* the pages, the service and the files change between two runs
CliEnvironment ==
    /\ cli.pc = "idle"
    /\ \/ \E u \in URLs : SiteFlip(u) \/ DropTable(u) \/ RenameColumn(u)
       \/ YfFlip
       \/ \E f \in Filenames, g \in Garbage : CorruptFile(f, g)

NextCli ==
    \/ \E all \in BOOLEAN, exchange \in ExchangeArgs : Main(all, exchange)
    \/ CliAll \/ CliAllExit \/ CliOne \/ CliOneExit \/ CliHelp \/ CliEnd
    \/ BatchCall \/ BatchStore \/ BatchRaise \/ BatchReturn
    \/ OneLookup \/ OneReturn \/ OneRaise
    \/ CacheCheck \/ CacheRead \/ ReadHtml \/ SelectTable \/ Normalize
    \/ Persist \/ ValidateTicker \/ ValidateDone
    \/ CliEnvironment

SpecCli == Init /\ [][NextCli]_vars

(***************************************************************************)
(* One call after the other, each run to its end: the interpreter executes *)
(* the next statement of a call that has begun, so a step that is enabled  *)
(* is taken                                                                *)
(***************************************************************************)
Steps ==
    \/ CacheCheck \/ CacheRead \/ ReadHtml \/ SelectTable \/ Normalize
    \/ Persist \/ ValidateTicker \/ ValidateDone

\* the pages, the service and the files change between two calls
StepsEnvironment ==
    \/ \E u \in URLs : SiteFlip(u) \/ RenameColumn(u)
    \/ YfFlip
    \/ \E f \in Filenames, g \in Garbage : CorruptFile(f, g)

NextSteps == Fetch \/ StepsEnvironment

SpecSteps == Init /\ [][NextSteps]_vars /\ WF_vars(Steps)

(***************************************************************************)
(* ParameterEnvironment, src/utils/parameters.py: two instances, each with *)
(* its parameters and its description. A dict is the sequence of its items *)
(* in the order of insertion, which is the order a loop over it follows    *)
(***************************************************************************)
ParameterKeys == {"A", "B"}
ParameterValues == {1, 2}
Descriptions == {"x"}

DictKeys(d) == {d[n].k : n \in 1..Len(d)}

\* d[key] = value: in place for a key of d, at the end for a new one
DictSet(d, key, value) ==
    IF key \in DictKeys(d)
    THEN [n \in 1..Len(d) |-> IF d[n].k = key THEN [k |-> key, v |-> value] ELSE d[n]]
    ELSE Append(d, [k |-> key, v |-> value])

\* d.pop(key, None)
DictPop(d, key) == SelectSeq(d, LAMBDA item : item.k # key)

\* parameters.py:102-140  add(key=value), add({key: value}); KeyError, and
\* nothing added, for a key that is there
Add(self, key, value) ==
    /\ penv' = [penv EXCEPT ![self].parameters =
                   IF key \notin DictKeys(@) THEN DictSet(@, key, value) ELSE @]
    /\ UNCHANGED <<web, yf, files, fetch, batch, prev, written, events,
                   one, legacy, norm, parked, incall, began, cli>>

\* parameters.py:143-158  update(key=value); KeyError for a key that is not there
Update(self, key, value) ==
    /\ penv' = [penv EXCEPT ![self].parameters =
                   IF key \in DictKeys(@) THEN DictSet(@, key, value) ELSE @]
    /\ UNCHANGED <<web, yf, files, fetch, batch, prev, written, events,
                   one, legacy, norm, parked, incall, began, cli>>

\* parameters.py:180-195  delete(key): self.parameters.pop(key, None)
Delete(self, key) ==
    /\ penv' = [penv EXCEPT ![self].parameters = DictPop(@, key)]
    /\ UNCHANGED <<web, yf, files, fetch, batch, prev, written, events,
                   one, legacy, norm, parked, incall, began, cli>>

\* parameters.py:250-277  the description dict after add_description(key,
\* description), and whether the call raised KeyError
DescriptionAdded(env, key, description) ==
    IF key \in DictKeys(env.parameters)
    THEN [description |-> DictSet(env.description, key, description), raised |-> FALSE]
    ELSE [description |-> env.description, raised |-> TRUE]

AddDescription(self, key, description) ==
    /\ penv' = [penv EXCEPT ![self].description =
                   DescriptionAdded(penv[self], key, description).description]
    /\ UNCHANGED <<web, yf, files, fetch, batch, prev, written, events,
                   one, legacy, norm, parked, incall, began, cli>>

\* parameters.py:280-291  the description becomes the str "None"; the dict is
\* replaced by an empty one when no other description is left
DeleteDescription(self, key) ==
    /\ LET marked == IF key \in DictKeys(penv[self].description)
                     THEN DictSet(penv[self].description, key, "None")
                     ELSE penv[self].description
       IN  penv' = [penv EXCEPT ![self].description =
                       IF \A n \in 1..Len(marked) : marked[n].v = "None"
                       THEN <<>> ELSE marked]
    /\ UNCHANGED <<web, yf, files, fetch, batch, prev, written, events,
                   one, legacy, norm, parked, incall, began, cli>>

\* parameters.py:334-336  self.add({key: value}) for the items of
\* instance.parameters from the n-th on, up to the first KeyError
RECURSIVE MergeParameters(_, _, _)
MergeParameters(env, items, n) ==
    IF n > Len(items) THEN [env |-> env, raised |-> FALSE]
    ELSE IF items[n].k \in DictKeys(env.parameters)
         THEN [env |-> env, raised |-> TRUE]
         ELSE MergeParameters(
                  [env EXCEPT !.parameters = DictSet(@, items[n].k, items[n].v)],
                  items, n + 1)

\* parameters.py:337-338  self.add_description(key=key, description=value) for
\* the items of instance.description from the n-th on, up to the first KeyError
RECURSIVE MergeDescriptions(_, _, _)
MergeDescriptions(env, items, n) ==
    IF n > Len(items) THEN env
    ELSE LET added == DescriptionAdded(env, items[n].k, items[n].v)
         IN  IF added.raised THEN env
             ELSE MergeDescriptions([env EXCEPT !.description = added.description],
                                    items, n + 1)

\* parameters.py:309-340  self.merge(instance)
Merge(self, instance) ==
    /\ self # instance
    /\ LET merged == MergeParameters(penv[self], penv[instance].parameters, 1)
       IN  penv' = [penv EXCEPT ![self] =
                       IF merged.raised THEN merged.env
                       ELSE MergeDescriptions(merged.env, penv[instance].description, 1)]
    /\ UNCHANGED <<web, yf, files, fetch, batch, prev, written, events,
                   one, legacy, norm, parked, incall, began, cli>>

NextParams ==
    \E self \in Instances :
        \/ \E key \in ParameterKeys, value \in ParameterValues :
               Add(self, key, value) \/ Update(self, key, value)
        \/ \E key \in ParameterKeys :
               \/ Delete(self, key)
               \/ DeleteDescription(self, key)
               \/ \E description \in Descriptions : AddDescription(self, key, description)
        \/ \E instance \in Instances : Merge(self, instance)

SpecParams == Init /\ [][NextParams]_vars

(***************************************************************************)
(* Properties                                                              *)
(***************************************************************************)
File == files[fetch.self.filename]

\* the ticker column of row i of a table, as exchange.py:69-70 and :80 turn
\* it into an element of the result
Derived(rule, cell) ==
    IF ticker_exists(NormalizeTicker(rule, cell.v))
    THEN Str(NormalizeTicker(rule, cell.v))
    ELSE Str(INVALID)

\* the page of self can be got and has tables
Reachable(self) == web[self.url].up /\ web[self.url].tables # <<>>

\* the table of the page that self.table_number selects
SourceTable(self) == ListItem(web[self.url].tables, self.table_number)

\* C1: once a get_symbols call has written the file of an exchange and nothing
\* outside has touched it, every later call for that exchange returns the
\* ticker column of the table read from the file, without a read_html call
\* and without a ticker_exists call.
CacheShortCircuit ==
    (fetch.pc \in Terminal /\ fetch.warm) =>
        /\ fetch.pc = "DONE"
        /\ ~CsvRaises(File)
        /\ fetch.out = ColumnValues(ReadCsv(File), fetch.self.column_key)
        /\ fetch.html_calls = 0
        /\ fetch.answers = <<>>

CacheShortCircuitWitness ==
    /\ fetch.pc = "DONE" /\ fetch.warm
    /\ Len(fetch.out) = 2

\* C2: two get_symbols calls in a row for the same exchange, nothing outside
\* having changed in between, return the same list.
Idempotence ==
    (fetch.pc \in Terminal /\ prev.pc # "idle" /\ prev.self = fetch.self) =>
        (fetch.pc = prev.pc /\ fetch.out = prev.out)

\* C3: where ticker_exists answered False for the ticker of row i during the
\* call that wrote the file, the next call, served from the file, does not
\* return that ticker at position i.
CacheServesValidated ==
    (/\ fetch.pc = "DONE" /\ fetch.html_calls = 0
     /\ prev.pc = "DONE" /\ prev.wrote /\ prev.self = fetch.self) =>
        \A i \in 1..Len(prev.answers) :
            ~prev.answers[i] =>
                /\ i <= Len(fetch.out)
                /\ fetch.out[i] # Str(File.lines[i][Column(ReadCsv(File), fetch.self.column_key)])

\* C4: every element of a returned list is a non-empty str: a ticker or
\* "invalid_ticker", never the empty string, never a missing value.
SymbolListElements ==
    fetch.pc \in {"DONE", "FAILED"} =>
        \A i \in 1..Len(fetch.out) :
            fetch.out[i].t = "str" /\ fetch.out[i].v # <<>>

\* C5: on a call that went to the source, position i of the result is
\* "invalid_ticker" exactly when ticker_exists answered False for the
\* normalized ticker of row i, and is that ticker otherwise; the answer for
\* one row decides no other position.
InvalidTickerSubstitution ==
    (fetch.pc = "DONE" /\ fetch.wrote) =>
        LET raw == ColumnValues(SourceTable(fetch.self), fetch.self.column_key)
            ticker(i) == NormalizeTicker(fetch.self.pattern_and_replacement, raw[i].v)
        IN  /\ Len(fetch.out) = Len(raw)
            /\ Len(fetch.answers) = Len(raw)
            /\ \A i \in 1..Len(raw) :
                  /\ fetch.answers[i] = ticker_exists(ticker(i))
                  /\ fetch.answers[i] => fetch.out[i] = Str(ticker(i))
                  /\ ~fetch.answers[i] => fetch.out[i] = Str(INVALID)

InvalidTickerSubstitutionWitness ==
    /\ fetch.pc = "DONE" /\ fetch.wrote
    /\ fetch.answers = <<FALSE, TRUE>>
    /\ fetch.out[1] = Str(INVALID) /\ fetch.out[2] # Str(INVALID)

\* C6 as claimed: whenever a call returns a list, the list has one element
\* per row of the table the source page has now, element i made from row i.
OrderPreservation ==
    (/\ fetch.pc = "DONE" /\ Reachable(fetch.self)
     /\ ListIndexValid(fetch.self.table_number, Len(web[fetch.self.url].tables))
     /\ HasColumn(SourceTable(fetch.self), fetch.self.column_key)) =>
        LET raw == ColumnValues(SourceTable(fetch.self), fetch.self.column_key)
        IN  /\ Len(fetch.out) = Len(raw)
            /\ \A i \in 1..Len(raw) :
                  raw[i].t = "str" /\
                  fetch.out[i] = Derived(fetch.self.pattern_and_replacement, raw[i])

\* C6 amended: a call that went to the source returns one element per row of
\* the source table, element i being made from row i alone (so that rows in
\* another order give the result in that order); a call served from the file
\* returns one element per line of the file, element i read from line i.
OrderPreservationAmended ==
    fetch.pc = "DONE" =>
        IF fetch.wrote
        THEN LET raw == ColumnValues(SourceTable(fetch.self), fetch.self.column_key)
             IN  /\ Len(fetch.out) = Len(raw)
                 /\ \A i \in 1..Len(raw) :
                       fetch.out[i] = Derived(fetch.self.pattern_and_replacement, raw[i])
        ELSE LET j == Column(ReadCsv(File), fetch.self.column_key)
             IN  /\ Len(fetch.out) = Len(File.lines)
                 /\ \A i \in 1..Len(File.lines) :
                       fetch.out[i] = ParseField(File, i, j)

OrderPreservationWitness ==
    /\ fetch.pc = "DONE" /\ fetch.wrote
    /\ fetch.self = DJIA
    /\ SourceTable(DJIA).rows = Reverse(Constituents("DJIA").rows)
    /\ fetch.out = <<Str(<<"A", "X", "P">>), Str(<<"M", "M", "M">>)>>
\* the file is there and read_csv, or the lookup of the column, raises on it
Malformed(file, key) ==
    file.exists /\ (CsvRaises(file) \/ ~HasColumn(ReadCsv(file), key))

AllKeys == {ExchangeKeys[i] : i \in 1..Len(ExchangeKeys)}

\* C7: get_all_symbols returns one entry per configured exchange; the entry
\* of an exchange whose page cannot be got (and that has no file) is the
\* empty list, the other entries are populated, and a page that cannot be got
\* never makes get_all_symbols raise: it raises only on a file that cannot be
\* read or on a source table without the column or with a cell that is no str.
BatchPartialFailure ==
    /\ batch.pc = "done" =>
          /\ DOMAIN batch.results = AllKeys
          /\ \A k \in AllKeys :
                IF files[EXCHANGES[k].filename].exists
                THEN batch.results[k] # <<>>
                ELSE /\ batch.results[k] = <<>>
                     /\ \/ ~Reachable(EXCHANGES[k])
                        \/ ~ListIndexValid(EXCHANGES[k].table_number,
                                           Len(web[EXCHANGES[k].url].tables))
          /\ \A k \in AllKeys :
                (~web[EXCHANGES[k].url].up /\ EXCHANGES[k].filename \notin written)
                    => batch.results[k] = <<>>
    /\ batch.pc = "raised" =>
          LET self == EXCHANGES[batch.failed]
          IN  \/ Malformed(files[self.filename], self.column_key)
              \/ /\ Reachable(self)
                 /\ ListIndexValid(self.table_number, Len(web[self.url].tables))
                 /\ \/ ~HasColumn(SourceTable(self), self.column_key)
                    \/ \E i \in 1..Len(SourceTable(self).rows) :
                          ColumnValues(SourceTable(self), self.column_key)[i].t # "str"

BatchPartialFailureWitness ==
    /\ batch.pc = "done"
    /\ ~web[FTSE_100.url].up
    /\ Len(batch.results["DJIA"]) = 2
    /\ batch.results["FTSE_100"] = <<>>
    /\ Len(batch.results["ATHEX"]) = 2

\* C8: whatever fails for one exchange, get_all_symbols goes on to the
\* exchanges after it: it never ends on an exception while exchanges are left.
FailureIsolation ==
    batch.pc = "raised" => batch.k = Len(ExchangeKeys)

\* C9: a call that went to the source and could not get the page, or whose
\* table_number is not in 0..(number of tables - 1), selects no table: it
\* returns the empty list and does not raise.
FetchFailureRecovered ==
    (/\ fetch.html_calls = 1 /\ fetch.pc # "PARSED"
     /\ \/ ~Reachable(fetch.self)
        \/ fetch.self.table_number \notin 0..(Len(web[fetch.self.url].tables) - 1)) =>
        (fetch.pc = "FAILED" /\ fetch.out = <<>>)

\* one step of a call that finds a file it cannot read: from the test of
\* exchange.py:40 to the read and from the read to the exception, with no
\* read_html call, no ticker_exists call and the files left as they are.
CorruptCacheStep ==
    (fetch.pc \in {"START", "CACHED"} /\ Malformed(File, fetch.self.column_key)) =>
        /\ fetch'.pc = IF fetch.pc = "START" THEN "CACHED" ELSE "RAISED"
        /\ fetch'.html_calls = 0
        /\ fetch'.answers = <<>>
        /\ files' = files

ValidatorNeverRaises == legacy.raised # "ticker_exists"

\* C12 as stated: get_exchange_symbols called with a name that is no key of
\* EXCHANGES ends on an error, neither on a list nor on an empty value.
UnknownExchangeIsError ==
    (one.pc = "DONE" /\ one.exchange_name \notin DOMAIN EXCHANGES)
        => one.ret = "raise"

UnknownExchangeStep ==
    /\ (one.pc = "START" /\ one.exchange_name \notin DOMAIN EXCHANGES)
          => /\ one'.pc = "DONE" /\ one'.ret = "None"
             /\ UNCHANGED <<web, yf, files, fetch, written, more>>
    /\ (one.pc = "START" /\ one.exchange_name \in DOMAIN EXCHANGES)
          => /\ fetch'.pc = "START"
             /\ fetch'.self = EXCHANGES[one.exchange_name]
    /\ (one.pc = "CALL" /\ one'.pc = "DONE")
          => /\ fetch.self = EXCHANGES[one.exchange_name]
             /\ fetch.pc \in Terminal
             /\ (one'.ret = "raise") = (fetch.pc = "RAISED")
             /\ one'.ret = "list" => one'.out = fetch.out

\* C12 amended: called with a name that is no key of EXCHANGES,
\* get_exchange_symbols returns None and reads no page, no file and asks the
\* lookup service nothing; called with a key it ends as the get_symbols() of
\* that exchange ends, on its list or on its exception.
UnknownExchangeIsNone == [][UnknownExchangeStep]_vars

UnknownExchangeWitness ==
    /\ one.pc = "DONE" /\ one.exchange_name \notin DOMAIN EXCHANGES
    /\ one.ret = "None"
    /\ fetch = NoFrame /\ \A f \in Filenames : ~files[f].exists

\* C13  Construction rejects an Exchange whose table_number is negative, so
\* that no get_symbols call ever runs on one.
NoFetchOnNegativeIndex == fetch.pc # "idle" => fetch.self.table_number >= 0

\* C14  The file a fetch writes holds every column of the fetched table, the
\* ticker column with the values after normalisation and the others as they
\* were fetched, whichever get_symbols wrote it: the one of the package or
\* the one of the script, which share the files of RAW_DATA_DIR.
CacheHoldsNormalized ==
    /\ (fetch.wrote /\ fetch.pc \in {"PERSISTED", "VALIDATING", "DONE"})
          => files[fetch.self.filename] = ToCsv(fetch.table)
    /\ (legacy.pc \in {"VALIDATING", "DONE"} /\ events = 0)
          => files[legacy.env.filename] = ToCsv(legacy.table)

\* the results the replacement has on a match of the pattern with the whole
\* of x; no result when the pattern does not match the whole of x
FullMatchResults(rule, x) ==
    LET n == Len(x)
        run(i, j, S) == \A k \in i..(j - 1) : x[k] \in S
        athex == <<"A", "t", "h", "e", "x", ":">>
        digits(lit, su) ==
            {SubSeq(x, a, n) \o su : a \in {a \in (Len(lit) + 1)..n :
                /\ StartsWithAt(x, 1, lit)
                /\ run(Len(lit) + 1, a, Space) /\ run(a, n + 1, Digit)}}
    IN  CASE rule.kind = "upper" ->
               IF n >= rule.lo /\ n <= rule.hi /\ run(1, n + 1, Upper)
               THEN {x \o rule.suffix} ELSE {}
          [] rule.kind = "athex" ->
               {SubSeq(x, t[1], t[2] - 1) \o <<".", "A", "T">> :
                  t \in {t \in (7..(n + 1)) \X (7..(n + 1)) \X (7..(n + 1)) :
                    /\ StartsWithAt(x, 1, athex)
                    /\ t[1] <= t[2] /\ t[2] <= t[3]
                    /\ run(7, t[1], Space) /\ run(t[1], t[2], Word)
                    /\ run(t[2], t[3], Space)
                    /\ (t[3] = n + 1 \/ (t[3] < n /\ x[t[3]] = "["))}}
          [] rule.kind = "csi" ->
               digits(<<"S", "S", "E", ":">>, <<".", "S", "S">>)
                 \cup digits(<<"S", "Z", "S", "E", ":">>, <<".", "S", "Z">>)

\* C15  For every str and every configured pattern: when the pattern matches
\* the whole str the rule gives the replacement on that match, and when it
\* does not the rule gives the str back as it was, a match of a part of it
\* rewriting nothing.
PatternRuleFullMatch ==
    (norm.pc = "out" /\ norm.rule \in PatternRules)
        => IF FullMatchResults(norm.rule, norm.raw) # {}
           THEN norm.sub \in FullMatchResults(norm.rule, norm.raw)
           ELSE norm.sub = norm.raw

\* the end of a footnote marker that ends s
StripTrailing(s) ==
    IF \E i \in 1..Len(s) : FootnoteEnd(s, i) = Len(s) + 1
    THEN SubSeq(s, 1, (CHOOSE i \in 1..Len(s) : FootnoteEnd(s, i) = Len(s) + 1) - 1)
    ELSE s

\* C16 as stated: the normalised str is what the rule makes of the raw str,
\* less a footnote marker at its end; a marker elsewhere stays.
NormalizeStripsTrailing ==
    (norm.pc = "out" /\ norm.rule \in PatternRules)
        => norm.out = StripTrailing(norm.sub)

\* the characters of s that stand in no footnote marker, in their order
OutsideMarkers(s) ==
    LET keep == {k \in 1..Len(s) :
                   ~\E i \in 1..k : FootnoteEnd(s, i) # 0 /\ k < FootnoteEnd(s, i)}
    IN  [j \in 1..Cardinality(keep) |->
            s[CHOOSE k \in keep : Cardinality({m \in keep : m <= k}) = j]]

\* C16 amended: the normalised str is what the rule makes of the raw str as
\* given, less every footnote marker ([N] or %5BN%5D) wherever it stands in
\* that result; "MSFT[1]" under a pattern that does not match it gives "MSFT".
NormalizeStripsEvery ==
    (norm.pc = "out" /\ norm.rule \in PatternRules)
        => norm.out = OutsideMarkers(norm.sub)

NormalizeStripsEveryWitness ==
    /\ norm.pc = "out" /\ norm.rule = DJIA.pattern_and_replacement
    /\ norm.raw = <<"M", "S", "F", "T", "[", "1", "]">>
    /\ norm.out = <<"M", "S", "F", "T">>

\* C17  With the suffix of SE = 'LSE' the script turns every ticker cell that
\* is not empty into the cell followed by '.L' and leaves an empty cell
\* empty: no call ends on an exception of the lines that append and strip.
SuffixAppendsToNonEmpty ==
    legacy.env.SE = "LSE"
        => /\ legacy.raised \notin {"suffix", "re.sub"}
           /\ legacy.pc \in {"VALIDATING", "DONE"}
                => LET raw == ColumnValues(ListItem(legacy.tables, legacy.env.table_number),
                                           legacy.env.column_key)
                       out == ColumnValues(legacy.table, legacy.env.column_key)
                   IN  \A i \in 1..Len(raw) :
                          out[i].v = IF raw[i].v = <<>> THEN <<>>
                                     ELSE StripFootnotes(raw[i].v \o <<".", "L">>)

\* C18  With the pattern of CSI_100 / CSI_300, a str made of "SSE:", any
\* whitespace and a run of digits d is normalised to d followed by ".SS", and
\* one made of "SZSE:", any whitespace and d to d followed by ".SZ".
CsiRouting ==
    (norm.pc = "out" /\ norm.rule = CsiRule)
        => \A p \in {<<<<"S", "S", "E", ":">>, <<".", "S", "S">>>>,
                     <<<<"S", "Z", "S", "E", ":">>, <<".", "S", "Z">>>>} :
             \A a \in (Len(p[1]) + 1)..Len(norm.raw) :
                (/\ StartsWithAt(norm.raw, 1, p[1])
                 /\ \A k \in (Len(p[1]) + 1)..(a - 1) : norm.raw[k] \in Space
                 /\ \A k \in a..Len(norm.raw) : norm.raw[k] \in Digit)
                    => /\ norm.sub = SubSeq(norm.raw, a, Len(norm.raw)) \o p[2]
                       /\ norm.out = norm.sub

CsiRoutingWitness ==
    /\ norm.pc = "out" /\ norm.rule = CsiRule
    /\ norm.raw = <<"S", "S", "E", ":", "nbsp", "6", "0", "0", "0", "0", "0">>
    /\ norm.out = <<"6", "0", "0", "0", "0", "0", ".", "S", "S">>

\* C19  The mapping get_all_symbols returns has one entry for every
\* configured exchange, under the name field of that exchange, and no other
\* key.
BatchKeysAreNames ==
    batch.pc = "done"
        => DOMAIN batch.results = {EXCHANGES[k].name : k \in DOMAIN EXCHANGES}

\* C20  When get_symbols() calls run in several threads, their ticker_exists
\* calls pass one at a time: at no time are two threads inside ticker_exists,
\* between the start of a lookup and the end of its delay.
ValidatorCallsSerialized == Cardinality(incall) <= 1

\* C21  Two get_symbols() calls of different exchanges, run in two threads
\* and interleaved in any way, end each as the call would end alone on the
\* files found at the start: the same outcome, the same list, and the same
\* file of the exchange.
InterleavingIndependence ==
    \A frame \in {fetch, parked} :
        (frame.caller = "thread" /\ frame.pc \in Terminal)
            => LET alone == GetSymbolsAlone(frame.self, began[frame.self.filename])
               IN  /\ frame.pc = alone.pc
                   /\ frame.out = alone.out
                   /\ files[frame.self.filename] = alone.file

InterleavingIndependenceWitness ==
    /\ fetch.caller = "thread" /\ fetch.pc = "DONE" /\ fetch.wrote
    /\ parked.pc = "VALIDATING" /\ parked.wrote
    /\ parked.self.name \in incall

\* C22  The command line ends with a status other than 0 only when the name
\* after --exchange is no key of EXCHANGES: a run for one known exchange,
\* for --all or without option ends with status 0.
ExitStatusZeroUnlessUnknown ==
    (cli.pc = "exit" /\ cli.status # 0)
        => cli.exchange \notin DOMAIN EXCHANGES \cup {""}

\* the steps of the state machine of one call, in their order
StepPairs ==
    {<<"START", "CACHED">>, <<"START", "FETCHING">>,
     <<"CACHED", "DONE">>,
     <<"FETCHING", "PARSED">>, <<"FETCHING", "FAILED">>,
     <<"PARSED", "SELECTED">>, <<"PARSED", "FAILED">>,
     <<"SELECTED", "NORMALIZED">>, <<"NORMALIZED", "PERSISTED">>,
     <<"PERSISTED", "VALIDATING">>, <<"PERSISTED", "DONE">>,
     <<"VALIDATING", "DONE">>}

\* a step of a call that has begun follows the order of the state machine,
\* or ends the call on an exception where raises is allowed; one step alone
\* reads the page, one alone writes the file, one alone asks the validator
OrderedStep(raises) ==
    (fetch.pc \notin Terminal \cup {"idle"} /\ fetch' # fetch)
        => /\ \/ <<fetch.pc, fetch'.pc>> \in StepPairs
              \/ fetch'.pc = fetch.pc /\ fetch.pc = "VALIDATING"
              \/ raises /\ fetch'.pc = "RAISED"
           /\ fetch'.html_calls # fetch.html_calls
                  <=> fetch.pc = "FETCHING"
           /\ (files' # files \/ fetch'.wrote # fetch.wrote)
                  <=> fetch.pc = "NORMALIZED" /\ fetch'.pc = "PERSISTED"
           /\ fetch'.answers # fetch.answers => fetch'.pc = "VALIDATING"

\* what a call has done by the time it ends, or asks the validator
Counted ==
    /\ fetch.html_calls <= 1
    /\ fetch.answers # <<>> => fetch.wrote
    /\ fetch.wrote => fetch.html_calls = 1
    /\ (fetch.pc = "DONE" /\ fetch.html_calls = 1)
           => fetch.wrote /\ Len(fetch.answers) = Len(fetch.table.rows)

\* C23 as stated: every call ends in DONE or FAILED, and the steps of a
\* successful miss are the read of the page, the selection of the table, the
\* normalization, the one write of the file and then the validation.
StepOrdering ==
    /\ fetch.pc = "START" ~> fetch.pc \in {"DONE", "FAILED"}
    /\ [](fetch.pc # "RAISED")
    /\ [][OrderedStep(FALSE)]_vars
    /\ []Counted

\* C23  Every call that has begun ends: in DONE, in FAILED, or on the
\* exception of a file that cannot be read or of a table that cannot be
\* normalized. A miss that ends in DONE has read the page once, then
\* selected the table, normalized it, written the file once and only then
\* asked the validator.
StepOrderingAmended ==
    /\ fetch.pc = "START" ~> fetch.pc \in Terminal
    /\ [][OrderedStep(TRUE)]_vars
    /\ []Counted

StepOrderingWitness ==
    /\ fetch.pc = "DONE" /\ fetch.wrote /\ fetch.html_calls = 1
    /\ Len(fetch.answers) = 2
    /\ files[fetch.self.filename] = ToCsv(fetch.table)

\* C24  A call that returns the empty list because the page could not be got
\* or has no table of the configured number has read the page once, has
\* written no file and has asked the validator nothing; the file of the
\* exchange is still absent, and the next call for the exchange, with nothing
\* changed in between, is a miss again and reads the page again.
FailedFetchLeavesCache ==
    /\ fetch.pc = "FAILED"
           => /\ fetch.out = <<>> /\ fetch.html_calls = 1
              /\ ~fetch.wrote /\ fetch.answers = <<>>
              /\ ~File.exists
    /\ (prev.pc = "FAILED" /\ fetch.self = prev.self
            /\ fetch.pc \notin {"idle", "START"})
           => /\ prev.html_calls = 1 /\ ~prev.wrote /\ prev.answers = <<>>
              /\ fetch.pc # "CACHED"
              /\ fetch.pc # "FETCHING" => fetch.html_calls = 1

FailedFetchWitness ==
    /\ prev.pc = "FAILED" /\ fetch.self = prev.self
    /\ fetch.pc = "FAILED" /\ fetch.html_calls = 1
    /\ fetch.tables # <<>>

\* C25  After any sequence of add, update, delete, add_description,
\* delete_description and merge, every key of the description of an instance
\* is a key of its parameters.
DescribedKeysAreParameters ==
    \A self \in Instances :
        DictKeys(penv[self].description) \subseteq DictKeys(penv[self].parameters)

====
